---- MODULE Spec2Model ----
(***************************************************************************)
(* Model of BackupService (server/src/services/backup.service.ts):         *)
(*   - the backup run handleBackupDatabase (pg_dumpall | gzip > *.tmp,      *)
(*     rename, retention sweep) over a file system of paths,               *)
(*   - the retention sweep cleanupDatabaseBackups,                         *)
(*   - the scheduler side (onBootstrap / onConfigUpdate) over several      *)
(*     instances sharing one database lock.                                *)
(* Strings are sequences of character codes, so that the regular           *)
(* expressions, Array.sort() and String.replace() are computed as          *)
(* JavaScript computes them.                                               *)
(***************************************************************************)
EXTENDS Integers, Sequences, FiniteSets, TLC

VARIABLES
    \* ---- backup run (handleBackupDatabase / cleanupDatabaseBackups)
    backupsFolder,    \* StorageCore.getBaseFolder(StorageFolder.BACKUPS)
    keepLastAmount,   \* config.backup.database.keepLastAmount
    fs,               \* the file system: the set of existing paths
    pc,               \* position of handleBackupDatabase
    timestamp,        \* Date.now() of the run, <<>> before it
    backupFilePath,   \* the run's temporary path
    handlers,         \* TRUE once the 'exit'/'error' handlers are attached
    pgdumpExitCode,   \* pgdump.exitCode: <<>> is null, <<c>> is code c (negative
                      \* for a failed spawn)
    gzipExitCode,     \* exit code of gzip, same encoding
    pgdumpError,      \* pgdump emitted 'error' (failed spawn)
    gzipError,        \* gzip emitted 'error' (failed spawn)
    rename,           \* storageRepository.rename: "none", "pending", "ok", "failed"
    promise,          \* the new Promise: "pending", "resolved", "rejected"
    files,            \* cleanupDatabaseBackups: the readdir result
    toDelete,         \* cleanupDatabaseBackups: what is left of toDelete
    unlinkFailed,     \* the file whose unlink threw, <<>> if none
    sweeps,           \* number of calls of cleanupDatabaseBackups
    result,           \* "none", "SUCCESS", "FAILED", "THROWN"
    fsAtStart,        \* the file system when the job started
    \* ---- scheduler (onBootstrap / onConfigUpdate), one entry per instance
    workerType,       \* the worker role given to app.bootstrap
    bootPc,           \* position of onBootstrap
    database,         \* onBootstrap's local copy of config.backup.database
    backupLock,       \* this.backupLock
    tryLockResult,    \* what tryLock returned: "none", "granted", "denied"
    lockOwner,        \* the lock provider: 0, or the instance holding the lock
    cron,             \* jobRepository: the 'backupDatabase' registration
    addCalls,         \* number of addCronJob('backupDatabase') calls
    updateCalls,      \* number of updateCronJob('backupDatabase') calls
    systemConfig,     \* the stored config.backup.database
    delivered,        \* number of config events handled so far
    lastDelivered,    \* the last config.update event the instance handled
    validated         \* the last config.validate: the candidate's expression, and
                      \* whether onConfigValidate threw

backupVars == <<backupsFolder, keepLastAmount, fs, pc, timestamp, backupFilePath,
                handlers, pgdumpExitCode, gzipExitCode, pgdumpError, gzipError,
                rename, promise, files, toDelete, unlinkFailed, sweeps, result,
                fsAtStart>>

schedVars == <<workerType, bootPc, database, backupLock, tryLockResult, lockOwner,
               cron, addCalls, updateCalls, systemConfig, delivered, lastDelivered,
               validated>>

vars == <<backupVars, schedVars>>

(* Bounds *)

MaxTs == 10          \* earlier artifacts carry timestamps 8..MaxTs
MaxFiles == 2        \* entries in the backups folder before the run
MaxKeep == 2         \* keepLastAmount ranges over 0..MaxKeep
NumInstances == 2    \* server instances receiving app.bootstrap
MaxUpdates == 1      \* config events delivered in one behaviour

(* Strings as sequences of character codes *)

Prefix == <<105,109,109,105,99,104,45,100,98,45,98,97,99,107,117,112,45>> \* "immich-db-backup-"
SqlGz == <<46,115,113,108,46,103,122>>                                   \* ".sql.gz"
Tmp == <<46,116,109,112>>                                                \* ".tmp"
Slash == <<47>>                                                          \* "/"
Empty == <<>>                                                            \* ""

IsDigit(c) == c \in 48..57                                               \* \d

\* `${n}` : the decimal text of a non-negative integer
RECURSIVE NumberToString(_)
NumberToString(n) ==
    IF n < 10 THEN <<48 + n>>
    ELSE NumberToString(n \div 10) \o <<48 + (n % 10)>>

\* path.join(folder, file), for a normalised folder and a plain file name
Join(folder, file) == folder \o Slash \o file

\* the text of s from position i that has the length of t
At(s, i, t) == SubSeq(s, i, i + Len(t) - 1)

\* String.prototype.replace(pattern, replacement) with a string pattern:
\* only the first occurrence is replaced
Replace(s, pattern, replacement) ==
    LET hits == {i \in 1..(Len(s) - Len(pattern) + 1) : At(s, i, pattern) = pattern}
    IN  IF hits = {} THEN s
        ELSE LET i == CHOOSE h \in hits : \A g \in hits : h <= g
             IN  SubSeq(s, 1, i - 1) \o replacement \o SubSeq(s, i + Len(pattern), Len(s))

\* file.match(/immich-db-backup-\d+<tail>$/): the pattern is anchored at the
\* end of the name only
MatchesBackup(file, tail) ==
    \E i \in 1..Len(file) :
        \E j \in (i + Len(Prefix))..Len(file) :
            /\ At(file, i, Prefix) = Prefix
            /\ \A d \in (i + Len(Prefix))..j : IsDigit(file[d])
            /\ SubSeq(file, j + 1, Len(file)) = tail

IsFailedBackup(file) == MatchesBackup(file, SqlGz \o Tmp)
IsBackup(file) == MatchesBackup(file, SqlGz)

\* a < b in JavaScript's string order (code unit by code unit)
RECURSIVE StringLess(_, _)
StringLess(a, b) ==
    IF b = <<>> THEN FALSE
    ELSE IF a = <<>> THEN TRUE
    ELSE IF Head(a) # Head(b) THEN Head(a) < Head(b)
    ELSE StringLess(Tail(a), Tail(b))

\* Array.prototype.sort() without a comparator, on distinct strings
RECURSIVE Insert(_, _)
Insert(x, sorted) ==
    IF sorted = <<>> THEN <<x>>
    ELSE IF StringLess(x, Head(sorted)) THEN <<x>> \o sorted
    ELSE <<Head(sorted)>> \o Insert(x, Tail(sorted))

RECURSIVE Sort(_)
Sort(s) == IF s = <<>> THEN <<>> ELSE Insert(Head(s), Sort(Tail(s)))

\* Array.prototype.reverse()
Reverse(s) == [i \in 1..Len(s) |-> s[Len(s) + 1 - i]]

\* Array.prototype.slice(start)
Slice(s, start) == SubSeq(s, start + 1, Len(s))

Range(s) == {s[i] : i \in 1..Len(s)}

(* The backups folder and its entries *)

\* "data/backups" and "data.tmp/backups": the base folder comes from the
\* media location, which the deployment chooses
Folders == { <<100,97,116,97,47,98,97,99,107,117,112,115>>,
             <<100,97,116,97,46,116,109,112,47,98,97,99,107,117,112,115>> }

\* `immich-db-backup-${ts}.sql.gz.tmp`
TmpName(ts) == Prefix \o NumberToString(ts) \o SqlGz \o Tmp

\* entries found in the folder before the run: artifacts of earlier runs,
\* their temporaries, and names that are no artifact names
OldTimestamps == 8..MaxTs
OtherNames == { <<120>> \o Prefix \o <<57>> \o SqlGz,          \* "ximmich-db-backup-9.sql.gz"
                <<120>> \o Prefix \o <<57>> \o SqlGz \o Tmp,   \* "ximmich-db-backup-9.sql.gz.tmp"
                Prefix \o SqlGz,                               \* "immich-db-backup-.sql.gz"
                Prefix \o <<57>> \o SqlGz \o <<120>> }         \* "immich-db-backup-9.sql.gzx"
OldNames == {Prefix \o NumberToString(ts) \o SqlGz : ts \in OldTimestamps}
              \cup {TmpName(ts) : ts \in OldTimestamps}
              \cup OtherNames

\* storageRepository.readdir(folder): the names of the folder's entries, in
\* an order the file system chooses
Entries(folder) ==
    LET under == {p \in fs : Len(p) > Len(folder) + 1 /\ At(p, 1, folder \o Slash) = folder \o Slash}
    IN  {name \in {SubSeq(p, Len(folder) + 2, Len(p)) : p \in under} :
            \A i \in 1..Len(name) : name[i] # Slash[1]}

Listings(folder) ==
    LET names == Entries(folder)
        n == Cardinality(names)
    IN  {l \in [1..n -> names] : \A i, j \in 1..n : l[i] = l[j] => i = j}

(* cleanupDatabaseBackups, lines 64-73 *)

FailedBackups(listing) == SelectSeq(listing, IsFailedBackup)

\* faulty variant: the sorted names are not reversed
Backups_NotReversed(listing) == Sort(SelectSeq(listing, IsBackup))

Backups(listing) == Reverse(Sort(SelectSeq(listing, IsBackup)))

\* faulty variant: the failed backups are not pushed
ToDelete_NoFailedBackups(listing, keep) == Slice(Backups(listing), keep)

ToDelete(listing, keep) == Slice(Backups(listing), keep) \o FailedBackups(listing)

(* handleBackupDatabase: the promise and the handlers *)

Reject(p) == IF p = "pending" THEN "rejected" ELSE p
Resolve(p) == IF p = "pending" THEN "resolved" ELSE p

\* faulty variant: a non-zero exit of pg_dumpall does not reject
PgdumpOnExit_NoReject(code, p) == p

\* pgdump.on('exit'): the promise after the handler
PgdumpOnExit(code, p) == IF code # 0 THEN Reject(p) ELSE p

\* faulty variant: pgdump.exitCode is not looked at
GzipOnExit_NoPgdumpCheck(code, pgdumpExit) ==
    IF code # 0 THEN "reject" ELSE "rename"

\* gzip.on('exit'): what the handler does, given pgdump.exitCode
GzipOnExit(code, pgdumpExit) ==
    IF code # 0 THEN "reject"
    ELSE IF pgdumpExit # <<0>> THEN "return"
    ELSE "rename"

\* the target of storageRepository.rename
RenameTarget(path) == Replace(path, Tmp, Empty)

\* faulty variant: the sweep is called after a rejection too
AfterPromise_AlwaysCleanup(p) == "cleanup"

\* after `await new Promise`: the catch block returns FAILED, otherwise the
\* sweep is called
AfterPromise(p) == IF p = "rejected" THEN "failed" ELSE "cleanup"

\* the exit code node records for a child that could not be spawned (-ENOENT)
SpawnErrno == 0 - 2

\* the for loop of the sweep: what an unlink that throws leaves of the run
AfterUnlinkError == "THROWN"

SchedulerIdle ==
    /\ workerType = [i \in 1..NumInstances |-> "api"]
    /\ bootPc = [i \in 1..NumInstances |-> "init"]
    /\ database = [i \in 1..NumInstances |-> <<>>]
    /\ backupLock = [i \in 1..NumInstances |-> FALSE]
    /\ tryLockResult = [i \in 1..NumInstances |-> "none"]
    /\ lockOwner = 0
    /\ cron = [i \in 1..NumInstances |-> <<>>]
    /\ addCalls = [i \in 1..NumInstances |-> 0]
    /\ updateCalls = [i \in 1..NumInstances |-> 0]
    /\ systemConfig = [cronExpression |-> "0 02 * * *", enabled |-> TRUE]
    /\ delivered = 0
    /\ lastDelivered = [i \in 1..NumInstances |-> <<>>]
    /\ validated = <<>>

BackupIdle(folder, keep, paths) ==
    /\ backupsFolder = folder
    /\ keepLastAmount = keep
    /\ fs = paths
    /\ fsAtStart = paths
    /\ pc = "idle"
    /\ timestamp = <<>>
    /\ backupFilePath = <<>>
    /\ handlers = FALSE
    /\ pgdumpExitCode = <<>>
    /\ gzipExitCode = <<>>
    /\ pgdumpError = FALSE
    /\ gzipError = FALSE
    /\ rename = "none"
    /\ promise = "pending"
    /\ files = <<>>
    /\ toDelete = <<>>
    /\ unlinkFailed = <<>>
    /\ sweeps = 0
    /\ result = "none"

Init ==
    /\ \E folder \in Folders, keep \in 0..MaxKeep, names \in SUBSET OldNames :
        /\ Cardinality(names) <= MaxFiles
        /\ BackupIdle(folder, keep, {Join(folder, n) : n \in names})
    /\ SchedulerIdle

\* the job queue runs one backupDatabase job at a time (spec 4.2, 5): a job
\* starts only when no other is under way
JobQueueAdmits(position) == position = "idle"

\* lines 81-136: the job starts; Date.now() is later than every earlier
\* run's, the write stream creates the temporary file, and the handlers are
\* attached unless a child has no stdio
Start(spawned) ==
    /\ JobQueueAdmits(pc)
    /\ timestamp' = <<MaxTs + 1>>
    /\ backupFilePath' = Join(backupsFolder, TmpName(MaxTs + 1))
    /\ fs' = fs \cup {Join(backupsFolder, TmpName(MaxTs + 1))}
    /\ handlers' = spawned
    /\ promise' = IF spawned THEN promise ELSE Reject(promise)
    /\ pc' = "await"
    /\ UNCHANGED <<schedVars, backupsFolder, keepLastAmount, pgdumpExitCode, gzipExitCode,
                   pgdumpError, gzipError, rename, files, toDelete, unlinkFailed,
                   sweeps, result, fsAtStart>>

\* lines 122-125: pg_dumpall could not be spawned; node sets exitCode to the
\* negative errno and emits 'error' in place of 'exit'
PgdumpError ==
    /\ handlers /\ ~pgdumpError /\ pgdumpExitCode = <<>>
    /\ pgdumpError' = TRUE
    /\ pgdumpExitCode' = <<SpawnErrno>>
    /\ promise' = Reject(promise)
    /\ UNCHANGED <<schedVars, backupsFolder, keepLastAmount, fs, pc, timestamp, backupFilePath,
                   handlers, gzipExitCode, gzipError, rename, files,
                   toDelete, unlinkFailed, sweeps, result, fsAtStart>>

\* lines 127-130: gzip could not be spawned
GzipError ==
    /\ handlers /\ ~gzipError /\ gzipExitCode = <<>>
    /\ gzipError' = TRUE
    /\ gzipExitCode' = <<SpawnErrno>>
    /\ promise' = Reject(promise)
    /\ UNCHANGED <<schedVars, backupsFolder, keepLastAmount, fs, pc, timestamp, backupFilePath,
                   handlers, pgdumpExitCode, pgdumpError, rename, files,
                   toDelete, unlinkFailed, sweeps, result, fsAtStart>>

\* lines 138-148: pg_dumpall exits; node sets exitCode and emits 'exit'
PgdumpExit(code) ==
    /\ handlers /\ pgdumpExitCode = <<>>
    /\ pgdumpExitCode' = <<code>>
    /\ promise' = PgdumpOnExit(code, promise)
    /\ UNCHANGED <<schedVars, backupsFolder, keepLastAmount, fs, pc, timestamp, backupFilePath,
                   handlers, gzipExitCode, pgdumpError, gzipError, rename, files,
                   toDelete, unlinkFailed, sweeps, result, fsAtStart>>

\* lines 150-162: gzip exits
GzipExit(code) ==
    /\ handlers /\ gzipExitCode = <<>>
    /\ gzipExitCode' = <<code>>
    /\ LET todo == GzipOnExit(code, pgdumpExitCode)
       IN  /\ promise' = IF todo = "reject" THEN Reject(promise) ELSE promise
           /\ rename' = IF todo = "rename" THEN "pending" ELSE rename
    /\ UNCHANGED <<schedVars, backupsFolder, keepLastAmount, fs, pc, timestamp, backupFilePath,
                   handlers, pgdumpExitCode, pgdumpError, gzipError, files,
                   toDelete, unlinkFailed, sweeps, result, fsAtStart>>

\* Faulty variant: a failed rename is taken for a completed one.
OnRenameError_Resolves(p) == Resolve(p)

\* .catch of the rename: the error is logged and the promise rejected.
OnRenameError(p) == Reject(p)

\* lines 161-169: the rename settles
RenameSettles(ok) ==
    /\ rename = "pending"
    /\ IF ok
       THEN /\ fs' = (fs \ {backupFilePath}) \cup {RenameTarget(backupFilePath)}
            /\ promise' = Resolve(promise)
            /\ rename' = "ok"
       ELSE /\ fs' = fs
            /\ promise' = OnRenameError(promise)
            /\ rename' = "failed"
    /\ UNCHANGED <<schedVars, backupsFolder, keepLastAmount, pc, timestamp, backupFilePath,
                   handlers, pgdumpExitCode, gzipExitCode, pgdumpError, gzipError,
                   files, toDelete, unlinkFailed, sweeps, result, fsAtStart>>

\* lines 172-178 and 56-73: the await ends; on rejection FAILED is returned,
\* otherwise the sweep lists the folder and computes toDelete
PromiseSettled ==
    /\ pc = "await" /\ promise # "pending"
    /\ IF AfterPromise(promise) = "failed"
       THEN /\ result' = "FAILED"
            /\ pc' = "done"
            /\ UNCHANGED <<files, toDelete, sweeps>>
       ELSE /\ \E listing \in Listings(backupsFolder) :
                /\ files' = listing
                /\ toDelete' = ToDelete(listing, keepLastAmount)
            /\ sweeps' = sweeps + 1
            /\ pc' = "unlink"
            /\ result' = result
    /\ UNCHANGED <<schedVars, backupsFolder, keepLastAmount, fs, timestamp, backupFilePath,
                   handlers, pgdumpExitCode, gzipExitCode, pgdumpError, gzipError,
                   rename, promise, unlinkFailed, fsAtStart>>

\* lines 75-77: one unlink of the loop
Unlink(ok) ==
    /\ pc = "unlink" /\ toDelete # <<>>
    /\ IF ok
       THEN /\ fs' = fs \ {Join(backupsFolder, Head(toDelete))}
            /\ toDelete' = Tail(toDelete)
            /\ UNCHANGED <<pc, result, unlinkFailed>>
       ELSE /\ unlinkFailed' = <<Head(toDelete)>>
            /\ result' = AfterUnlinkError
            /\ pc' = "done"
            /\ UNCHANGED <<fs, toDelete>>
    /\ UNCHANGED <<schedVars, backupsFolder, keepLastAmount, timestamp, backupFilePath,
                   handlers, pgdumpExitCode, gzipExitCode, pgdumpError, gzipError,
                   rename, promise, files, sweeps, fsAtStart>>

\* lines 78-79 and 179: the sweep returns and the job returns SUCCESS
Finish ==
    /\ pc = "unlink" /\ toDelete = <<>>
    /\ result' = "SUCCESS"
    /\ pc' = "done"
    /\ UNCHANGED <<schedVars, backupsFolder, keepLastAmount, fs, timestamp, backupFilePath,
                   handlers, pgdumpExitCode, gzipExitCode, pgdumpError, gzipError,
                   rename, promise, files, toDelete, unlinkFailed, sweeps, fsAtStart>>

Next ==
    \/ \E spawned \in BOOLEAN : Start(spawned)
    \/ PgdumpError
    \/ GzipError
    \/ \E code \in {0, 1} : PgdumpExit(code)
    \/ \E code \in {0, 1} : GzipExit(code)
    \/ \E ok \in BOOLEAN : RenameSettles(ok)
    \/ PromiseSettled
    \/ \E ok \in BOOLEAN : Unlink(ok)
    \/ Finish

Spec == Init /\ [][Next]_vars

(* The scheduler: onBootstrap and onConfigUpdate on every instance *)

Instances == 1..NumInstances
WorkerTypes == {"api", "microservices"}
CronExpressions == {"0 02 * * *", "0 03 * * *"}
Configs == [cronExpression : CronExpressions, enabled : BOOLEAN]

\* what a config.validate event can carry: also a malformed expression
InvalidExpressions == {"not-a-cron"}
Candidates == [cronExpression : CronExpressions \cup InvalidExpressions, enabled : BOOLEAN]

\* validateCronExpression (src/validation): TRUE for a 5-field cron expression
ValidateCronExpression(expression) == expression \in CronExpressions

\* faulty variant: the throw is missing
ConfigValidateThrows_Never(newConfig) == FALSE

\* lines 49-53: onConfigValidate throws
ConfigValidateThrows(newConfig) == ~ValidateCronExpression(newConfig.cronExpression)

\* faulty variant: the worker role is not looked at
BootstrapSkips_Never(worker) == FALSE

\* line 20: onBootstrap returns at once on a worker that is not the API worker
BootstrapSkips(worker) == worker # "api"

\* databaseRepository.tryLock(DatabaseLock.BackupDatabase): what it can
\* return to a caller, given who holds the lock
TryLock(owner) == IF owner = 0 THEN BOOLEAN ELSE {FALSE}

\* jobRepository.addCronJob('backupDatabase', expression, callback, enabled)
AddCronJob(expression, enabled) ==
    <<[cronExpression |-> expression, enabled |-> enabled]>>

\* jobRepository.updateCronJob('backupDatabase', expression, enabled)
UpdateCronJob(job, expression, enabled) ==
    IF job = <<>> THEN job
    ELSE <<[cronExpression |-> expression, enabled |-> enabled]>>

\* faulty variant: oldConfig is not looked at
ConfigUpdateIgnored_NoOldCheck(hasOldConfig, lock) == ~lock

\* faulty variant: backupLock is not looked at
ConfigUpdateIgnored_NoLockCheck(hasOldConfig, lock) == ~hasOldConfig

\* line 41: onConfigUpdate returns without touching the cron job
ConfigUpdateIgnored(hasOldConfig, lock) == ~hasOldConfig \/ ~lock

SchedInit ==
    /\ workerType \in [Instances -> WorkerTypes]
    /\ bootPc = [i \in Instances |-> "init"]
    /\ database = [i \in Instances |-> <<>>]
    /\ backupLock = [i \in Instances |-> FALSE]
    /\ tryLockResult = [i \in Instances |-> "none"]
    /\ lockOwner = 0
    /\ cron = [i \in Instances |-> <<>>]
    /\ addCalls = [i \in Instances |-> 0]
    /\ updateCalls = [i \in Instances |-> 0]
    /\ systemConfig \in Configs
    /\ delivered = 0
    /\ lastDelivered = [i \in Instances |-> <<>>]
    /\ validated = <<>>
    /\ BackupIdle(CHOOSE f \in Folders : Len(f) = 12, 0, {})

\* lines 19-25: app.bootstrap arrives; the API worker asks for the config
BootstrapStart(i) ==
    /\ bootPc[i] = "init"
    /\ bootPc' = [bootPc EXCEPT ![i] =
                    IF BootstrapSkips(workerType[i]) THEN "done" ELSE "getConfig"]
    /\ UNCHANGED <<backupVars, validated, workerType, database, backupLock, tryLockResult,
                   lockOwner, cron, addCalls, updateCalls, systemConfig, delivered,
                   lastDelivered>>

\* lines 23-27: getConfig returns and tryLock is called
BootstrapGetConfig(i) ==
    /\ bootPc[i] = "getConfig"
    /\ database' = [database EXCEPT ![i] = <<systemConfig>>]
    /\ bootPc' = [bootPc EXCEPT ![i] = "tryLock"]
    /\ UNCHANGED <<backupVars, validated, workerType, backupLock, tryLockResult, lockOwner,
                   cron, addCalls, updateCalls, systemConfig, delivered, lastDelivered>>

\* lines 27-36: tryLock returns; the cron job is added when the lock is held
BootstrapTryLock(i, granted) ==
    /\ bootPc[i] = "tryLock"
    /\ granted \in TryLock(lockOwner)
    /\ backupLock' = [backupLock EXCEPT ![i] = granted]
    /\ tryLockResult' = [tryLockResult EXCEPT ![i] =
                            IF granted THEN "granted" ELSE "denied"]
    /\ lockOwner' = IF granted THEN i ELSE lockOwner
    /\ IF granted
       THEN /\ cron' = [cron EXCEPT ![i] =
                          AddCronJob(database[i][1].cronExpression, database[i][1].enabled)]
            /\ addCalls' = [addCalls EXCEPT ![i] = @ + 1]
       ELSE UNCHANGED <<cron, addCalls>>
    /\ bootPc' = [bootPc EXCEPT ![i] = "done"]
    /\ UNCHANGED <<backupVars, validated, workerType, database, updateCalls, systemConfig,
                   delivered, lastDelivered>>

\* lines 39-46: a config.update event is handled by instance i; the event is
\* only emitted for a config on which config.validate did not throw
OnConfigUpdate(i, newConfig, hasOldConfig) ==
    /\ delivered < MaxUpdates
    /\ ~ConfigValidateThrows(newConfig)
    /\ delivered' = delivered + 1
    /\ systemConfig' = newConfig
    /\ lastDelivered' = [lastDelivered EXCEPT ![i] =
                            <<[newConfig |-> newConfig, oldConfig |-> hasOldConfig,
                               bootstrapped |-> bootPc[i] = "done"]>>]
    /\ IF ConfigUpdateIgnored(hasOldConfig, backupLock[i])
       THEN UNCHANGED <<cron, updateCalls>>
       ELSE /\ cron' = [cron EXCEPT ![i] =
                          UpdateCronJob(@, newConfig.cronExpression, newConfig.enabled)]
            /\ updateCalls' = [updateCalls EXCEPT ![i] = @ + 1]
    /\ UNCHANGED <<backupVars, validated, workerType, bootPc, database, backupLock,
                   tryLockResult, lockOwner, addCalls>>

\* lines 48-54: a config.validate event is handled by instance i
OnConfigValidate(i, newConfig) ==
    /\ delivered < MaxUpdates
    /\ delivered' = delivered + 1
    /\ validated' = <<[cronExpression |-> newConfig.cronExpression,
                       threw |-> ConfigValidateThrows(newConfig)]>>
    /\ UNCHANGED <<backupVars, workerType, bootPc, database, backupLock,
                   tryLockResult, lockOwner, cron, addCalls, updateCalls,
                   systemConfig, lastDelivered>>


SchedNext ==
    \/ \E i \in Instances : BootstrapStart(i)
    \/ \E i \in Instances : BootstrapGetConfig(i)
    \/ \E i \in Instances, granted \in BOOLEAN : BootstrapTryLock(i, granted)
    \/ \E i \in Instances, newConfig \in Candidates, hasOldConfig \in BOOLEAN :
          OnConfigUpdate(i, newConfig, hasOldConfig)
    \/ \E i \in Instances, newConfig \in Candidates : OnConfigValidate(i, newConfig)

SpecSched == SchedInit /\ [][SchedNext]_vars

(* Properties *)

\* the whole name is immich-db-backup-<digits><tail>
WellFormed(name, tail) ==
    /\ Len(name) > Len(Prefix) + Len(tail)
    /\ At(name, 1, Prefix) = Prefix
    /\ SubSeq(name, Len(name) - Len(tail) + 1, Len(name)) = tail
    /\ \A d \in (Len(Prefix) + 1)..(Len(name) - Len(tail)) : IsDigit(name[d])

WellFormedFinal(name) == WellFormed(name, SqlGz)
WellFormedTmp(name) == WellFormed(name, SqlGz \o Tmp)

\* the number written in a text of digits
RECURSIVE ParseNumber(_)
ParseNumber(digits) ==
    IF digits = <<>> THEN 0
    ELSE 10 * ParseNumber(SubSeq(digits, 1, Len(digits) - 1)) + (digits[Len(digits)] - 48)

\* the timestamp embedded in a well-formed final artifact's name
EmbeddedTimestamp(name) ==
    ParseNumber(SubSeq(name, Len(Prefix) + 1, Len(name) - Len(SqlGz)))

Exists(name) == Join(backupsFolder, name) \in fs

\* the sweep has returned normally
SweepCompleted == pc = "done" /\ result = "SUCCESS"

\* the final artifacts the sweep found, all of them well-formed
FinalsListed == {f \in Range(files) : WellFormedFinal(f)}
OnlyWellFormedFinals == \A f \in Range(files) : IsBackup(f) => WellFormedFinal(f)
SameWidthFinals == \A f, g \in FinalsListed : Len(f) = Len(g)

\* the keepLastAmount most recent by embedded timestamp
MostRecent ==
    {f \in FinalsListed :
        Cardinality({g \in FinalsListed : EmbeddedTimestamp(g) > EmbeddedTimestamp(f)})
            < keepLastAmount}

\* the final path of the run's artifact
RunFinalPath == Join(backupsFolder, Prefix \o NumberToString(MaxTs + 1) \o SqlGz)

\* C1: an instance whose tryLock returned false has made no call of addCronJob
\* or updateCronJob for 'backupDatabase' and has no registration, whatever
\* config.update events it has handled.
C1_NoLockNoCronCalls ==
    \A i \in Instances :
        tryLockResult[i] = "denied" =>
            addCalls[i] = 0 /\ updateCalls[i] = 0 /\ cron[i] = <<>>

\* C1 witness: an instance whose tryLock returned false has since handled a
\* config.update that carried an old config.
C1_Witness ==
    \E i \in Instances :
        /\ tryLockResult[i] = "denied"
        /\ lastDelivered[i] # <<>>
        /\ lastDelivered[i][1].oldConfig
        /\ lastDelivered[i][1].bootstrapped

C3_NoTemporaryLeft ==
    SweepCompleted => \A f \in Range(files) : WellFormedTmp(f) => ~Exists(f)

\* C3 witness: a completed sweep that found a well-formed temporary artifact
\* while keeping final ones.
C3_Witness ==
    /\ SweepCompleted
    /\ keepLastAmount >= 1
    /\ \E f \in Range(files) : WellFormedTmp(f)

\* C4 as stated: an entry whose whole name is neither
\* immich-db-backup-<digits>.sql.gz nor immich-db-backup-<digits>.sql.gz.tmp
\* is still there during and after the sweep.
C4_OtherNamesUntouched ==
    \A f \in Range(files) :
        (~WellFormedFinal(f) /\ ~WellFormedTmp(f)) => Exists(f)

\* C5: once pg_dumpall has exited with a non-zero code the promise is
\* rejected, the sweep is never entered, and the job ends with FAILED, in
\* whatever order the two exits arrive.
C5_ProducerFailureFails ==
    (pgdumpExitCode # <<>> /\ pgdumpExitCode # <<0>>) =>
        /\ promise = "rejected"
        /\ \/ pc = "await" /\ result = "none"
           \/ pc = "done" /\ result = "FAILED"

\* C5 witness: the job has returned FAILED after pg_dumpall exited 1 and gzip
\* exited 0.
C5_Witness ==
    /\ pc = "done" /\ result = "FAILED"
    /\ pgdumpExitCode = <<1>> /\ gzipExitCode = <<0>>

\* C6 as stated: when both stages have exited with code zero (and no rename
\* has failed), the rename is under way or the artifact is at its final name
\* and the temporary one is gone.
C6_BothZeroPublishes ==
    (pgdumpExitCode = <<0>> /\ gzipExitCode = <<0>> /\ rename # "failed") =>
        \/ rename = "pending"
        \/ RunFinalPath \in fs /\ backupFilePath \notin fs

\* C7: the run's final-named artifact exists only when both pg_dumpall and
\* gzip have exited with code zero.
C7_FinalOnlyAfterBothZero ==
    RunFinalPath \in fs => (pgdumpExitCode = <<0>> /\ gzipExitCode = <<0>>)

\* C7 witness: the run's final-named artifact exists.
C7_Witness == RunFinalPath \in fs /\ rename = "ok"

C9_SweepContinuesAfterFailure ==
    (pc = "done" /\ unlinkFailed # <<>>) =>
        \A f \in Range(ToDelete(files, keepLastAmount)) \ Range(unlinkFailed) :
            ~Exists(f)

\* C10 as stated: a run whose artifact was published ends with SUCCESS, also
\* when an unlink of the sweep that follows fails.
C10_UnlinkFailureNotFatal ==
    (pc = "done" /\ rename = "ok" /\ promise = "resolved") => result = "SUCCESS"

\* C11: at most one instance has the 'backupDatabase' cron job registered
\* (and at most one holds the lock), and an instance that is not the API
\* worker has neither called tryLock nor registered anything.
C11_SingleApiOwner ==
    /\ Cardinality({i \in Instances : cron[i] # <<>>}) <= 1
    /\ Cardinality({i \in Instances : backupLock[i]}) <= 1
    /\ \A i \in Instances :
          workerType[i] # "api" =>
              /\ tryLockResult[i] = "none"
              /\ addCalls[i] = 0
              /\ cron[i] = <<>>

\* C11 witness: every instance has finished its bootstrap, one API worker
\* registered the job, another API worker was refused the lock and a
\* config.update has been handled.
C11_Witness ==
    /\ \A i \in Instances : bootPc[i] = "done"
    /\ \E i, j \in Instances :
          /\ tryLockResult[i] = "granted" /\ cron[i] # <<>>
          /\ tryLockResult[j] = "denied"
    /\ delivered > 0

\* C12: a config.update handled by an instance that holds the lock, with an
\* old config, sets the registration's expression and enabled flag to those
\* of the new config (one updateCronJob call); handled without an old config,
\* or without the lock, it leaves the registration as it was. (The new config
\* of a handled event is the one the step leaves as the system config.)
C12_UpdateSetsRegistration ==
    [][\A i \in Instances, h \in BOOLEAN :
          LET c == systemConfig' IN
          OnConfigUpdate(i, c, h) =>
              IF h /\ backupLock[i]
              THEN /\ cron'[i] = <<[cronExpression |-> c.cronExpression,
                                    enabled |-> c.enabled]>>
                   /\ updateCalls'[i] = updateCalls[i] + 1
              ELSE /\ cron'[i] = cron[i]
                   /\ updateCalls'[i] = updateCalls[i]]_vars

\* C12 witness: the lock holder has handled, after its bootstrap, a
\* config.update with an old config, and its registration is now the new
\* config and no longer the one of the bootstrap.
C12_Witness ==
    \E i \in Instances :
        /\ tryLockResult[i] = "granted"
        /\ lastDelivered[i] # <<>>
        /\ lastDelivered[i][1].oldConfig
        /\ lastDelivered[i][1].bootstrapped
        /\ updateCalls[i] = 1
        /\ cron[i] = <<lastDelivered[i][1].newConfig>>
        /\ cron[i] # database[i]

C15_FailedRunChangesNothing ==
    (pc = "done" /\ result = "FAILED") =>
        /\ fs = fsAtStart \cup {backupFilePath}
        /\ rename \in {"none", "failed"}
        /\ sweeps = 0

\* C15 witness: a run over a folder holding earlier artifacts has ended with
\* FAILED after gzip exited with a non-zero code.
C15_Witness ==
    /\ pc = "done" /\ result = "FAILED"
    /\ gzipExitCode = <<1>>
    /\ \E p \in fsAtStart : p # backupFilePath

\* C16: once the rename of the temporary artifact has failed, the run's promise
\* is rejected, the artifact is still at its temporary path, nothing is at the
\* final path, no sweep runs and the run, when it has ended, has ended FAILED.
C16_RenameFailureFails ==
    rename = "failed" =>
        /\ promise = "rejected"
        /\ backupFilePath \in fs
        /\ RunFinalPath \notin fs
        /\ pc \in {"await", "done"}
        /\ pc = "done" => result = "FAILED"

\* C16 witness: both stages exited 0, the rename failed, the run has ended.
C16_Witness ==
    /\ pc = "done" /\ rename = "failed"
    /\ pgdumpExitCode = <<0>> /\ gzipExitCode = <<0>>

\* C17 as stated: whenever a rename has been started, its target is the
\* temporary artifact's path without its trailing '.tmp', for every base
\* folder.
C17_TargetStripsTrailingTmp ==
    rename \in {"pending", "ok"} =>
        RenameTarget(backupFilePath) =
            SubSeq(backupFilePath, 1, Len(backupFilePath) - Len(Tmp))

\* C18 as stated, in its finite form: once the exit of both pg_dumpall and
\* gzip has been handled, the run's promise is settled or a rename that will
\* settle it is under way.
C18_BothExitedSettles ==
    (pc = "await" /\ pgdumpExitCode # <<>> /\ gzipExitCode # <<>>) =>
        (promise # "pending" \/ rename = "pending")

\* C19 as stated: on a lock holder whose bootstrap has completed and to which
\* a config update (with an old config) was delivered, the registration is the
\* expression of the most recent delivered config.
C19_RegistrationIsLatestConfig ==
    \A i \in Instances :
        (/\ bootPc[i] = "done" /\ backupLock[i]
         /\ lastDelivered[i] # <<>> /\ lastDelivered[i][1].oldConfig) =>
            cron[i] = <<lastDelivered[i][1].newConfig>>

\* C20: updateCronJob('backupDatabase') is never called on an instance that has
\* not called addCronJob('backupDatabase'); an instance whose backupLock is
\* true has the job registered, by exactly one addCronJob call; and a
\* registered job is never unregistered.
C20_UpdateOnlyAfterAdd ==
    /\ [](\A i \in Instances :
            /\ backupLock[i] => (cron[i] # <<>> /\ addCalls[i] = 1)
            /\ updateCalls[i] > 0 => (addCalls[i] >= 1 /\ backupLock[i]))
    /\ [][\A i \in Instances :
            /\ cron[i] # <<>> => cron'[i] # <<>>
            /\ updateCalls'[i] > updateCalls[i] => cron[i] # <<>>]_vars

\* C20 witness: a lock holder has called updateCronJob after its addCronJob.
C20_Witness ==
    \E i \in Instances :
        /\ backupLock[i] /\ addCalls[i] = 1 /\ updateCalls[i] >= 1
        /\ cron[i] # <<>>

====
